---- MODULE Spec2Model ----
(***************************************************************************)
(* CHRONOS-EYE: the indexing and retrieval core.                           *)
(*                                                                         *)
(*   VectorDatabase   src/src/database.py   (specification SpecDB)         *)
(*   MediaScanner     src/src/scanner.py    (specification SpecScan)       *)
(*   EmbeddingPipeline src/src/embedder.py  (specification SpecEnc)        *)
(*   ChronosIndexer   src/index.py          (specification Spec)           *)
(*                                                                         *)
(* Vectors are abstracted to a width and a value tag, metadata to a tag.   *)
(* A 2-D embeddings array is its width (shape[1]) and its sequence of row  *)
(* tags (len(embeddings) = number of rows).  The ChromaDB collection the   *)
(* VectorDatabase wraps is external; it is modelled at the call sites by   *)
(* what its add/query/delete/count operations do.                          *)
(***************************************************************************)
EXTENDS Integers, Sequences, FiniteSets, TLC

(* ------------------------------------------------------------------ *)
(* Bounds of the model                                                 *)
(* ------------------------------------------------------------------ *)
\* longest ids / embeddings / metadatas list handed to add_embeddings
MaxBatch == 2
\* widest vector; widths range over 2..MaxWidth
MaxWidth == 3
\* largest top_k of a query
MaxTopK == 2

Ids == {"a", "b"}
Widths == 2..MaxWidth
Tags == {1, 2}
\* embedding_dim = None
NoDim == 0

VARIABLES
    embedding_dim,   \* VectorDatabase.embedding_dim of the open instance
    collection,      \* the persisted collection: id -> [vec, meta]
    coll_dim,        \* the dimension the collection itself is bound to
    first_width,     \* width of the first batch ever written to the store
    last             \* the last VectorDatabase call: arguments, outcome, state before

dbVars == <<embedding_dim, collection, coll_dim, first_width, last>>

VARIABLES
    dir,             \* the scanned directory tree: path -> file, or NoFile
    indexed_files,   \* MediaScanner.indexed_files (in memory)
    ignore_file,     \* indexed_hashes of the persisted .chronos_ignore
    scan,            \* the last scan_directory call: mode, result, state it saw
    since            \* what happened to the directory since it was last fully committed

fsVars == <<dir, indexed_files, ignore_file>>
scanVars == <<scan, since>>

VARIABLES
    enc_in,          \* the arguments of an encode_images call
    enc_out          \* what the call returned or raised

encVars == <<enc_in, enc_out>>

VARIABLES
    pc,              \* where index_directory stands
    media_files,     \* index_directory: the scan result of the run
    video_pos,       \* _index_videos: index of the next video of the loop
    all_ids,         \* _index_videos: the ids collected so far
    all_embeddings,  \* _index_videos: the frame vectors collected so far
    all_metadatas,   \* _index_videos: the metadata collected so far
    run,             \* history of the current (or last) index_directory call
    root             \* what root_path is: exists, is a directory, access rights

runVars == <<pc, media_files, video_pos, all_ids, all_embeddings, all_metadatas, run, root>>

VARIABLES
    frontend,        \* "web" (web_app/server.py) or "gui" (src/app.py)
    indexing_status, \* server.py: the global indexing_status, its "active" entry
    idx_btn,         \* app.py: state of the start-indexing button
    index_pc,        \* per start-indexing request: where its worker stands
    search_pc,       \* per search request: where its handler or worker stands
    callbacks        \* app.py: completion callbacks posted with root.after, not yet run

serveVars == <<frontend, indexing_status, idx_btn, index_pc, search_pc, callbacks>>

VARIABLES
    SCENEDETECT_AVAILABLE, \* frame_sampler.py: whether the scenedetect import succeeded
    sampler,         \* the FrameSampler instance: method, fps
    sampled          \* the last sample_video call: arguments, outcome

samplerVars == <<SCENEDETECT_AVAILABLE, sampler, sampled>>

vars == <<dbVars, fsVars, scanVars, encVars, runVars, serveVars, samplerVars>>

\* what the actions of one component leave alone
notDbVars == <<fsVars, scanVars, encVars, runVars, serveVars, samplerVars>>
notScanVars == <<dbVars, encVars, runVars, serveVars, samplerVars>>
notEncVars == <<dbVars, fsVars, scanVars, runVars, serveVars, samplerVars>>
notServeVars == <<dbVars, fsVars, scanVars, encVars, runVars, samplerVars>>
notSamplerVars == <<dbVars, fsVars, scanVars, encVars, runVars, serveVars>>

(* ------------------------------------------------------------------ *)
(* Helpers                                                             *)
(* ------------------------------------------------------------------ *)
Range(s) == {s[i] : i \in 1..Len(s)}

SeqsUpTo(S, n) == UNION {[1..k -> S] : k \in 0..n}

HasDuplicates(s) == \E i, j \in 1..Len(s) : i # j /\ s[i] = s[j]

\* index of the first occurrence of x in s
FirstIndex(s, x) == CHOOSE i \in 1..Len(s) : s[i] = x /\ \A j \in 1..(i - 1) : s[j] # x

EmptyCollection == [x \in {} |-> 0]

NoCall == [op |-> "none"]

(* ------------------------------------------------------------------ *)
(* Files and the directory                                             *)
(* ------------------------------------------------------------------ *)
\* File sizes are counted in MiB.  A file's bytes are its size, its first and
\* last MiB (edge) and what lies between them (mid).
LargeFileMiB == 10

Contents ==
    { [size |-> LargeFileMiB - 1, edge |-> 1, mid |-> 1],
      [size |-> LargeFileMiB,     edge |-> 1, mid |-> 1],
      [size |-> LargeFileMiB,     edge |-> 1, mid |-> 2] }

Files == [content : Contents, readable : BOOLEAN]

NoFile == [content |-> "none"]

\* the paths of the tree, in the order os.walk yields them
WalkOrder == <<"E.JPG", "a.jpg", "b.mp4", "c.txt", ".cache/d.png", "sub/b.mp4">>

Paths == Range(WalkOrder)

\* the paths that the trees of SpecScan and Spec use; the trees of SpecWalk
\* use all of Paths
TreePaths == {"a.jpg", "b.mp4", "c.txt", "sub/b.mp4"}

\* the files below a directory whose name starts with a dot
InHiddenDirectory(path) == path \in {".cache/d.png"}

\* Path.suffix
RawSuffix(path) ==
    CASE path = "a.jpg" -> ".jpg"
      [] path = "E.JPG" -> ".JPG"
      [] path = ".cache/d.png" -> ".png"
      [] path \in {"b.mp4", "sub/b.mp4"} -> ".mp4"
      [] OTHER -> ".txt"

\* str.lower() left out
lower_Identity(ext) == ext

\* str.lower() on the suffixes of the tree
lower(ext) == IF ext = ".JPG" THEN ".jpg" ELSE ext

\* Path.suffix.lower()
Suffix(path) == lower(RawSuffix(path))

video_extensions == {".mp4", ".mov", ".mkv", ".avi", ".webm", ".flv", ".wmv", ".m4v"}
image_extensions == {".jpg", ".jpeg", ".png", ".webp", ".bmp", ".tiff", ".tif", ".gif"}
all_extensions == video_extensions \cup image_extensions

Present(d) == {p \in Paths : d[p] # NoFile}

\* since: "clean" when every media file of the tree has been committed and
\* nothing changed afterwards; "added" / "moved" when exactly one file was then
\* added (at path) or moved (from -> path); "unknown" otherwise
NoChange(state, n) == [state |-> state, path |-> "", from |-> "", changes |-> n]

NoDirectory ==
    /\ dir = [p \in Paths |-> NoFile]
    /\ indexed_files = {}
    /\ ignore_file = {}
    /\ scan = NoCall
    /\ since = NoChange("unknown", 0)

NoStore ==
    /\ embedding_dim = NoDim
    /\ collection = EmptyCollection
    /\ coll_dim = NoDim
    /\ first_width = NoDim
    /\ last = NoCall

NoEncoding == enc_in = NoCall /\ enc_out = NoCall

NoRun ==
    /\ pc = "idle"
    /\ media_files = <<>>
    /\ video_pos = 0
    /\ all_ids = <<>>
    /\ all_embeddings = <<>>
    /\ all_metadatas = <<>>
    /\ run = NoCall
    /\ root = [exists |-> TRUE, is_dir |-> TRUE, readable |-> TRUE, writable |-> TRUE]

\* most start-indexing requests, and most search requests, of a behaviour
MaxRequests == 2

Requests == 1..MaxRequests

NoServe ==
    /\ frontend = "web"
    /\ indexing_status = [active |-> FALSE]
    /\ idx_btn = "normal"
    /\ index_pc = [r \in Requests |-> "idle"]
    /\ search_pc = [r \in Requests |-> "idle"]
    /\ callbacks = 0

NoSampler ==
    /\ SCENEDETECT_AVAILABLE = TRUE
    /\ sampler = [method |-> "scene_detect", fps |-> 1]
    /\ sampled = NoCall

(* ------------------------------------------------------------------ *)
(* MediaScanner                                                        *)
(* ------------------------------------------------------------------ *)
\* SHA-256 is taken to be injective on what is fed to the hasher: the whole
\* content below 10 MiB, first MiB + last MiB + size from 10 MiB on, and
\* path + size when the file cannot be read.
compute_file_hash_WithPath(path, f) == <<"sha256", path, f.content>>

compute_file_hash(path, f) ==
    IF ~f.readable
    THEN <<"sha256", "path", path, f.content.size>>
    ELSE IF f.content.size < LargeFileMiB
    THEN <<"sha256", "bytes", f.content>>
    ELSE <<"sha256", "edges", f.content.edge, f.content.size>>

MediaFile(path, f) ==
    [path |-> path,
     file_hash |-> compute_file_hash(path, f),
     file_type |-> IF Suffix(path) \in video_extensions THEN "video" ELSE "image",
     size_bytes |-> f.content.size]

\* the loop body of scan_directory for the i-th path of the walk
RECURSIVE Walk(_, _, _, _)
Walk(d, indexed, incremental, i) ==
    IF i > Len(WalkOrder) THEN <<>>
    ELSE LET path == WalkOrder[i]
             rest == Walk(d, indexed, incremental, i + 1)
         IN IF d[path] = NoFile \/ InHiddenDirectory(path) THEN rest
            ELSE IF Suffix(path) \notin all_extensions THEN rest
            ELSE IF incremental /\ compute_file_hash(path, d[path]) \in indexed THEN rest
            ELSE <<MediaFile(path, d[path])>> \o rest

\* a scan that never consults indexed_files
scan_directory_IgnoringSet(d, indexed, incremental) == Walk(d, indexed, FALSE, 1)

\* MediaScanner.scan_directory
scan_directory(d, indexed, incremental) == Walk(d, indexed, incremental, 1)

\* MediaScanner.update_ignore_file: the in-memory set grows by the hashes, and
\* _save_ignore_file rewrites the file with the whole set (an IOError of the
\* write is printed and swallowed)
update_ignore_file(indexed, persisted, files, save_ok) ==
    LET new_hashes == {files[i].file_hash : i \in 1..Len(files)}
    IN [indexed |-> indexed \cup new_hashes,
        persisted |-> IF save_ok THEN indexed \cup new_hashes ELSE persisted]

\* most changes of the tree a behaviour makes after its initial state
MaxFsChanges == 1
\* most files in the tree of an initial state
MaxInitialFiles == 2

InitScan ==
    /\ dir \in [Paths -> Files \cup {NoFile}]
    /\ Present(dir) \subseteq TreePaths
    /\ Cardinality(Present(dir)) <= MaxInitialFiles
    /\ indexed_files = {}
    /\ ignore_file = {}
    /\ scan = NoCall
    /\ since = NoChange("unknown", 0)
    /\ NoStore
    /\ NoEncoding
    /\ NoRun
    /\ NoServe
    /\ NoSampler

\* scanner.scan_directory(incremental)
ScanDirectory ==
    \E incremental \in BOOLEAN :
        /\ scan' = [op |-> "scan", incremental |-> incremental,
                    files |-> scan_directory(dir, indexed_files, incremental),
                    dir |-> dir, indexed |-> indexed_files, since |-> since]
        /\ UNCHANGED <<fsVars, since, notScanVars>>

\* scanner.update_ignore_file(files) with the result of the last scan
UpdateIgnoreFile ==
    /\ scan.op = "scan"
    /\ \E save_ok \in BOOLEAN :
        LET r == update_ignore_file(indexed_files, ignore_file, scan.files, save_ok)
        IN /\ indexed_files' = r.indexed
           /\ ignore_file' = r.persisted
           /\ scan' = [op |-> "committed", saved |-> save_ok]
    /\ since' = NoChange(IF scan.dir = dir THEN "clean" ELSE "unknown", since.changes)
    /\ UNCHANGED <<dir, notScanVars>>

\* a further MediaScanner(root_path): the set is loaded from the ignore file
NewScanner ==
    /\ indexed_files' = ignore_file
    /\ since' = IF ignore_file = indexed_files THEN since
                ELSE NoChange("unknown", since.changes)
    /\ scan' = [op |-> "none"]
    /\ UNCHANGED <<dir, ignore_file, notScanVars>>

Changed(kind, from, path) ==
    IF since.state = "clean"
    THEN [state |-> kind, path |-> path, from |-> from, changes |-> since.changes + 1]
    ELSE NoChange("unknown", since.changes + 1)

\* a file appears under the root
AddFile ==
    /\ since.changes < MaxFsChanges
    /\ \E path \in TreePaths, f \in Files :
        /\ dir[path] = NoFile
        /\ dir' = [dir EXCEPT ![path] = f]
        /\ since' = Changed("added", "", path)
    /\ UNCHANGED <<indexed_files, ignore_file, scan, notScanVars>>

\* a file is renamed or moved under the root, bytes and permissions kept
MoveFile ==
    /\ since.changes < MaxFsChanges
    /\ \E from, to \in TreePaths :
        /\ dir[from] # NoFile
        /\ dir[to] = NoFile
        /\ dir' = [dir EXCEPT ![from] = NoFile, ![to] = dir[from]]
        /\ since' = Changed("moved", from, to)
    /\ UNCHANGED <<indexed_files, ignore_file, scan, notScanVars>>

NextScan == ScanDirectory \/ UpdateIgnoreFile \/ NewScanner \/ AddFile \/ MoveFile

SpecScan == InitScan /\ [][NextScan]_vars

\* scans and commits over the trees of all paths: hidden directories and
\* upper-case suffixes included
InitWalk ==
    /\ dir \in [Paths -> Files \cup {NoFile}]
    /\ Cardinality(Present(dir)) <= MaxInitialFiles
    /\ indexed_files = {}
    /\ ignore_file = {}
    /\ scan = NoCall
    /\ since = NoChange("unknown", 0)
    /\ NoStore
    /\ NoEncoding
    /\ NoRun
    /\ NoServe
    /\ NoSampler

NextWalk == ScanDirectory \/ UpdateIgnoreFile

SpecWalk == InitWalk /\ [][NextWalk]_vars

\* the paths a full scan of a tree has to return, and the videos among them
ExpectedMedia == {"E.JPG", "a.jpg", "b.mp4", "sub/b.mp4"}
ExpectedVideos == {"b.mp4", "sub/b.mp4"}

\* C24: a scan with incremental = False returns one MediaFile per file of the
\* tree that is outside hidden directories and has a suffix of the allow-list
\* in any case, typed video for a video suffix and image otherwise, whatever
\* indexed_files holds; no other file is returned.
C24_FullScanReturnsEveryMediaFile ==
    (scan.op = "scan" /\ ~scan.incremental) =>
        /\ {scan.files[i].path : i \in 1..Len(scan.files)}
              = Present(scan.dir) \cap ExpectedMedia
        /\ ~HasDuplicates([i \in 1..Len(scan.files) |-> scan.files[i].path])
        /\ \A i \in 1..Len(scan.files) :
              scan.files[i].file_type =
                 IF scan.files[i].path \in ExpectedVideos THEN "video" ELSE "image"

\* a full scan, the fingerprint set holding the hash of a file it returns, of
\* a tree with an upper-case suffix and a file in a hidden directory
C24_Witness ==
    /\ scan.op = "scan"
    /\ ~scan.incremental
    /\ {"E.JPG", ".cache/d.png"} \subseteq Present(scan.dir)
    /\ \E i \in 1..Len(scan.files) :
          scan.files[i].path = "E.JPG" /\ scan.files[i].file_hash \in scan.indexed

(* ------------------------------------------------------------------ *)
(* The ChromaDB collection, as VectorDatabase calls it                 *)
(* ------------------------------------------------------------------ *)
Unchanged(status, coll, cdim) == [status |-> status, coll |-> coll, cdim |-> cdim]

\* collection.add(ids, embeddings, metadatas): the record set is validated as a
\* whole (equal lengths, at least one id, no id twice, the collection's
\* dimension); ids the collection already holds are skipped, not overwritten.
CollectionAdd(coll, cdim, ids, emb, metas, io_fail) ==
    IF Len(ids) = 0 \/ Len(emb.rows) # Len(ids) \/ Len(metas) # Len(ids)
    THEN Unchanged("store_value_error", coll, cdim)
    ELSE IF HasDuplicates(ids)
    THEN Unchanged("store_duplicate_id", coll, cdim)
    ELSE IF cdim # NoDim /\ cdim # emb.w
    THEN Unchanged("store_dimension_error", coll, cdim)
    ELSE IF io_fail
    THEN Unchanged("store_write_error", coll, cdim)
    ELSE [status |-> "ok",
          coll |-> [x \in DOMAIN coll \cup Range(ids) |->
                       IF x \in DOMAIN coll THEN coll[x]
                       ELSE [vec |-> [w |-> emb.w, val |-> emb.rows[FirstIndex(ids, x)]],
                             meta |-> metas[FirstIndex(ids, x)]]],
          cdim |-> emb.w]

\* |q - v| stands for the cosine distance of two value tags
Distance(q, v) == IF q >= v THEN q - v ELSE v - q

RECURSIVE Ranked(_, _, _)
Ranked(coll, S, q) ==
    IF S = {} THEN <<>>
    ELSE LET best == CHOOSE x \in S :
                        \A y \in S : Distance(q, coll[x].vec.val) <= Distance(q, coll[y].vec.val)
         IN <<best>> \o Ranked(coll, S \ {best}, q)

Take(s, n) == IF Len(s) <= n THEN s ELSE SubSeq(s, 1, n)

\* collection.query(query_embeddings, n_results, where): a collection bound to a
\* dimension refuses a query of another width; an exact-match filter on the
\* metadata; the n_results nearest records, nearest first.
CollectionQuery(coll, cdim, q, top_k, where) ==
    IF cdim # NoDim /\ cdim # q.w
    THEN [status |-> "store_dimension_error", ids |-> <<>>, distances |-> <<>>]
    ELSE LET S == {x \in DOMAIN coll : where = 0 \/ coll[x].meta = where}
             r == Take(Ranked(coll, S, q.val), top_k)
         IN [status |-> "ok", ids |-> r,
             distances |-> [i \in 1..Len(r) |-> Distance(q.val, coll[r[i]].vec.val)]]

(* ------------------------------------------------------------------ *)
(* VectorDatabase                                                      *)
(* ------------------------------------------------------------------ *)
\* `len(ids) != len(embeddings) != len(metadatas)`: a chained comparison,
\* (len(ids) != len(embeddings)) and (len(embeddings) != len(metadatas))
LengthCheckFails(n_ids, n_emb, n_meta) == n_ids # n_emb /\ n_emb # n_meta

\* embedding_dim after the auto-detection step
AutoDetect(dim, width) == IF dim = NoDim THEN width ELSE dim

\* the width check left out
DimensionMismatch_Never(width, dim) == FALSE

DimensionMismatch(width, dim) == width # dim

\* VectorDatabase.add_embeddings on an instance whose embedding_dim is dim.
\* passed: the call got through the instance's own checks to collection.add
add_embeddings(dim, coll, cdim, ids, emb, metas, io_fail) ==
    IF LengthCheckFails(Len(ids), Len(emb.rows), Len(metas))
    THEN [status |-> "length_error", passed |-> FALSE,
          dim |-> dim, coll |-> coll, cdim |-> cdim]
    ELSE LET d == AutoDetect(dim, emb.w) IN
         IF DimensionMismatch(emb.w, d)
         THEN [status |-> "dimension_mismatch", passed |-> FALSE,
               dim |-> d, coll |-> coll, cdim |-> cdim]
         ELSE LET r == CollectionAdd(coll, cdim, ids, emb, metas, io_fail)
              IN [status |-> r.status, passed |-> TRUE,
                  dim |-> d, coll |-> r.coll, cdim |-> r.cdim]

\* VectorDatabase.search: the query goes to the collection as it is; each hit
\* becomes a SearchResult with similarity_score = 1 - distance
search(coll, cdim, q, top_k, where) ==
    LET r == CollectionQuery(coll, cdim, q, top_k, where)
    IN [status |-> r.status,
        results |-> [i \in 1..Len(r.ids) |->
                        [file_id |-> r.ids[i], similarity_score |-> 1 - r.distances[i],
                         metadata |-> coll[r.ids[i]].meta]]]

\* VectorDatabase.count
count(coll) == Cardinality(DOMAIN coll)

InitDB ==
    /\ embedding_dim \in {NoDim} \cup Widths
    /\ collection = EmptyCollection
    /\ coll_dim = NoDim
    /\ first_width = NoDim
    /\ last = NoCall
    /\ NoDirectory
    /\ NoEncoding
    /\ NoRun
    /\ NoServe
    /\ NoSampler

\* a further VectorDatabase(persist_directory, embedding_dim = dim) on the same
\* collection; dim = NoDim is embedding_dim left unset (web_app/server.py)
Open ==
    \E dim \in {NoDim} \cup Widths :
        /\ embedding_dim' = dim
        /\ last' = [op |-> "open", dim |-> dim]
        /\ UNCHANGED <<collection, coll_dim, first_width>>
        /\ UNCHANGED notDbVars

\* the state change of one add_embeddings call, and its record in last
AddCall(ids, emb, metas, io_fail) ==
    LET r == add_embeddings(embedding_dim, collection, coll_dim, ids, emb, metas, io_fail)
    IN /\ embedding_dim' = r.dim
       /\ collection' = r.coll
       /\ coll_dim' = r.cdim
       /\ first_width' = IF first_width = NoDim /\ r.status = "ok" THEN emb.w ELSE first_width
       /\ last' = [op |-> "add", ids |-> ids, emb |-> emb, metas |-> metas,
                   status |-> r.status, passed |-> r.passed,
                   pre_dim |-> embedding_dim, pre_coll |-> collection,
                   pre_first |-> first_width]
       /\ UNCHANGED notDbVars

\* add_embeddings(ids, embeddings, metadatas) with three lists of one length,
\* called on the store directly (no index_directory in progress)
AddEmbeddings ==
    \E ids \in SeqsUpTo(Ids, MaxBatch), w \in Widths, v \in Tags :
        /\ pc = "idle"
        /\ AddCall(ids, [w |-> w, rows |-> [i \in 1..Len(ids) |-> v]],
                   [i \in 1..Len(ids) |-> v], FALSE)

\* add_embeddings with lists whose lengths are not all equal, in every
\* combination of lengths
AddEmbeddingsRagged ==
    \E n_ids, n_emb, n_meta \in 0..MaxBatch, w \in Widths :
        /\ ~(n_ids = n_emb /\ n_emb = n_meta)
        /\ AddCall([i \in 1..n_ids |-> IF i = 1 THEN "a" ELSE "b"],
                   [w |-> w, rows |-> [i \in 1..n_emb |-> 1]],
                   [i \in 1..n_meta |-> 1], FALSE)

Search ==
    \E w \in Widths, v \in Tags, top_k \in 1..MaxTopK, where \in {0} \cup Tags :
        LET r == search(collection, coll_dim, [w |-> w, val |-> v], top_k, where)
        IN /\ last' = [op |-> "search", w |-> w, v |-> v, top_k |-> top_k,
                       where |-> where, status |-> r.status, results |-> r.results]
           /\ UNCHANGED <<embedding_dim, collection, coll_dim, first_width>>
           /\ UNCHANGED notDbVars

\* collection.delete(ids=[file_id]); an id the collection lacks is no error
delete_by_id(coll, file_id) == [y \in DOMAIN coll \ {file_id} |-> coll[y]]

\* collection.delete(where={"file_path": path})
delete_by_filter(coll, path) ==
    [y \in {z \in DOMAIN coll : coll[z].meta.file_path # path} |-> coll[y]]

\* VectorDatabase.delete_by_id
DeleteById ==
    \E x \in Ids :
        /\ collection' = delete_by_id(collection, x)
        /\ last' = [op |-> "delete", id |-> x]
        /\ UNCHANGED <<embedding_dim, coll_dim, first_width>>
        /\ UNCHANGED notDbVars

\* VectorDatabase.reset: the collection is deleted and created anew
Reset ==
    /\ collection' = EmptyCollection
    /\ coll_dim' = NoDim
    /\ first_width' = NoDim
    /\ last' = [op |-> "reset"]
    /\ UNCHANGED embedding_dim
    /\ UNCHANGED notDbVars

NextDB == Open \/ AddEmbeddings \/ AddEmbeddingsRagged \/ Search \/ DeleteById \/ Reset

SpecDB == InitDB /\ [][NextDB]_vars

(* ------------------------------------------------------------------ *)
(* EmbeddingPipeline                                                   *)
(* ------------------------------------------------------------------ *)
\* EmbeddingPipeline.embedding_dim (model.config.projection_dim)
EmbedDim == 2

\* An image to encode is its name and whether Image.open(...).convert
\* succeeds.  The provider's raw feature of an image points in the image's
\* direction with some length; dividing by the norm makes the length one.
Feature(img) == [dir |-> img.name, norm |-> "raw"]

Normalize(f) == [dir |-> f.dir, norm |-> "unit"]

ZeroRow == [dir |-> "none", norm |-> "zero"]

\* the loop that loads the images: the indices that loaded, in order
RECURSIVE ValidIndices(_, _)
ValidIndices(image_paths, idx) ==
    IF idx > Len(image_paths) THEN <<>>
    ELSE IF image_paths[idx].loads
    THEN <<idx>> \o ValidIndices(image_paths, idx + 1)
    ELSE ValidIndices(image_paths, idx + 1)

\* EmbeddingPipeline._encode_image_batch
encode_image_batch(image_paths, provider_ok) ==
    LET valid_indices == ValidIndices(image_paths, 1)
        embeddings == [k \in 1..Len(valid_indices) |->
                          Normalize(Feature(image_paths[valid_indices[k]]))]
    IN IF valid_indices = <<>>
       THEN [status |-> "ok", rows |-> [i \in 1..Len(image_paths) |-> ZeroRow]]
       ELSE IF ~provider_ok
       THEN [status |-> "provider_error", rows |-> <<>>]
       ELSE IF Len(valid_indices) < Len(image_paths)
       THEN [status |-> "ok",
             rows |-> [i \in 1..Len(image_paths) |->
                          IF \E k \in 1..Len(valid_indices) : valid_indices[k] = i
                          THEN embeddings[CHOOSE k \in 1..Len(valid_indices) : valid_indices[k] = i]
                          ELSE ZeroRow]]
       ELSE [status |-> "ok", rows |-> embeddings]

Min(a, b) == IF a <= b THEN a ELSE b

\* the batches of encode_images from offset i on (i counts from 0, as range does)
RECURSIVE Batches(_, _, _, _)
Batches(image_paths, batch_size, provider_ok, i) ==
    IF i >= Len(image_paths) THEN <<>>
    ELSE <<encode_image_batch(SubSeq(image_paths, i + 1,
                                     Min(i + batch_size, Len(image_paths))),
                              provider_ok)>>
         \o Batches(image_paths, batch_size, provider_ok, i + batch_size)

RECURSIVE Concat(_)
Concat(arrays) ==
    IF arrays = <<>> THEN <<>> ELSE Head(arrays).rows \o Concat(Tail(arrays))

\* EmbeddingPipeline.encode_images: np.vstack of the batch arrays, which raises
\* a ValueError when there is no array to stack
encode_images(image_paths, batch_size, provider_ok) ==
    LET embeddings == Batches(image_paths, batch_size, provider_ok, 0)
    IN IF \E b \in 1..Len(embeddings) : embeddings[b].status # "ok"
       THEN [status |-> "provider_error", w |-> EmbedDim, rows |-> <<>>]
       ELSE IF embeddings = <<>>
       THEN [status |-> "vstack_value_error", w |-> EmbedDim, rows |-> <<>>]
       ELSE [status |-> "ok", w |-> EmbedDim, rows |-> Concat(embeddings)]

\* longest list of paths and largest batch size of an encode_images call
MaxPaths == 3
MaxBatchSize == 2

Images == [name : {"x", "y"}, loads : BOOLEAN]

InitEnc ==
    /\ enc_in \in [image_paths : SeqsUpTo(Images, MaxPaths),
                   batch_size : 1..MaxBatchSize,
                   provider_ok : BOOLEAN]
    /\ enc_out = NoCall
    /\ NoStore
    /\ NoDirectory
    /\ NoRun
    /\ NoServe
    /\ NoSampler

EncodeImages ==
    /\ enc_out = NoCall
    /\ enc_out' = [op |-> "encode_images",
                   result |-> encode_images(enc_in.image_paths, enc_in.batch_size,
                                            enc_in.provider_ok)]
    /\ UNCHANGED <<enc_in, notEncVars>>

NextEnc == EncodeImages

SpecEnc == InitEnc /\ [][NextEnc]_vars

\* C10: encode_images returns, for any list of paths, any batch size >= 1 and
\* any subset of paths that fail to load, an array with one row per path in
\* input order: the zero vector for a path that failed, the normalized
\* embedding of the image for a path that loaded.
C10_OneAlignedRowPerPath ==
    (enc_out.op = "encode_images" /\ enc_in.provider_ok) =>
        /\ enc_out.result.status = "ok"
        /\ enc_out.result.w = EmbedDim
        /\ Len(enc_out.result.rows) = Len(enc_in.image_paths)
        /\ \A i \in 1..Len(enc_in.image_paths) :
               enc_out.result.rows[i] =
                   IF enc_in.image_paths[i].loads
                   THEN [dir |-> enc_in.image_paths[i].name, norm |-> "unit"]
                   ELSE ZeroRow

\* the same for the lists that hold at least one path
C10_NonEmptyLists ==
    (enc_out.op = "encode_images" /\ enc_in.provider_ok /\ enc_in.image_paths # <<>>) =>
        /\ enc_out.result.status = "ok"
        /\ Len(enc_out.result.rows) = Len(enc_in.image_paths)
        /\ \A i \in 1..Len(enc_in.image_paths) :
               enc_out.result.rows[i] =
                   IF enc_in.image_paths[i].loads
                   THEN [dir |-> enc_in.image_paths[i].name, norm |-> "unit"]
                   ELSE ZeroRow

(* ------------------------------------------------------------------ *)
(* SemanticSearch                                                      *)
(* ------------------------------------------------------------------ *)
\* the `embedding` entry of a collection.get result that holds no embeddings
NoEmbedding == [w |-> NoDim, val |-> 0]

NotFound == [found |-> FALSE, embedding |-> NoEmbedding, metadata |-> 0]

\* collection.get(ids=[id], include): the embeddings are part of the result
\* only when include names them; the default include is metadatas and
\* documents
CollectionGet(coll, id, include_embeddings) ==
    IF id \in DOMAIN coll
    THEN [found |-> TRUE,
          embedding |-> IF include_embeddings THEN coll[id].vec ELSE NoEmbedding,
          metadata |-> coll[id].meta]
    ELSE NotFound

\* VectorDatabase.get_by_id: collection.get(ids=[file_id]) with the default
\* include
get_by_id(coll, file_id) == CollectionGet(coll, file_id, FALSE)

\* SemanticSearch.get_similar_files
get_similar_files(coll, cdim, file_id, top_k) ==
    LET file_data == get_by_id(coll, file_id)
    IN IF ~file_data.found \/ file_data.embedding = NoEmbedding
       THEN [status |-> "value_error", queried |-> 0, results |-> <<>>]
       ELSE LET r == search(coll, cdim, file_data.embedding, top_k + 1, 0)
            IN [status |-> r.status, queried |-> top_k + 1,
                results |-> Take(SelectSeq(r.results, LAMBDA x : x.file_id # file_id),
                                 top_k)]

\* values of query vectors: up to distance 2 from a stored value, so that
\* 1 - distance ranges over -1..1
QueryTags == 0..3

\* EmbeddingPipeline.encode_text: a query vector of the model's width
encode_text(query) == [w |-> EmbedDim, val |-> query]

\* thresholds passed as min_score
MinScores == {-1, 0, 1}

\* `if min_score > 0:`
FilterByScore(min_score) == min_score > 0

\* SemanticSearch.search_text; file_type 0 stands for None
search_text(coll, cdim, query, top_k, file_type, min_score) ==
    LET r == search(coll, cdim, encode_text(query), top_k, file_type)
    IN [status |-> r.status, store_results |-> r.results,
        results |-> IF FilterByScore(min_score)
                    THEN SelectSeq(r.results, LAMBDA x : x.similarity_score >= min_score)
                    ELSE r.results]

\* the stores a search can meet: any records of one width
Stores(w) ==
    UNION {[S -> [vec : [w : {w}, val : Tags], meta : Tags]] : S \in SUBSET Ids}

InitSearch ==
    /\ \E w \in Widths :
        /\ collection \in Stores(w)
        /\ coll_dim = (IF collection = EmptyCollection THEN NoDim ELSE w)
        /\ first_width = coll_dim
        /\ embedding_dim = coll_dim
    /\ last = NoCall
    /\ NoDirectory
    /\ NoEncoding
    /\ NoRun
    /\ NoServe
    /\ NoSampler

SearchText ==
    /\ pc = "idle"
    /\ \E query \in QueryTags, top_k \in 1..MaxTopK, file_type \in {0} \cup Tags,
          min_score \in MinScores :
        LET r == search_text(collection, coll_dim, query, top_k, file_type, min_score)
        IN last' = [op |-> "search_text", query |-> query, top_k |-> top_k,
                    file_type |-> file_type, min_score |-> min_score,
                    status |-> r.status, store_results |-> r.store_results,
                    results |-> r.results]
    /\ UNCHANGED <<embedding_dim, collection, coll_dim, first_width>>
    /\ UNCHANGED notDbVars

GetSimilarFiles ==
    /\ pc = "idle"
    /\ \E file_id \in Ids, top_k \in 1..MaxTopK :
        LET r == get_similar_files(collection, coll_dim, file_id, top_k)
        IN last' = [op |-> "get_similar_files", file_id |-> file_id, top_k |-> top_k,
                    status |-> r.status, queried |-> r.queried, results |-> r.results]
    /\ UNCHANGED <<embedding_dim, collection, coll_dim, first_width>>
    /\ UNCHANGED notDbVars

NextSearch == SearchText \/ GetSimilarFiles

SpecSearch == InitSearch /\ [][NextSearch]_vars

\* C11: for every stored id and every top_k >= 1, get_similar_files looks up
\* the stored vector, queries top_k + 1 neighbours and returns at most top_k
\* results, none of them the record of the id itself.
C11_SimilarFilesExcludeSelf ==
    (last.op = "get_similar_files" /\ last.file_id \in DOMAIN collection) =>
        /\ last.status = "ok"
        /\ last.queried = last.top_k + 1
        /\ Len(last.results) <= last.top_k
        /\ \A i \in 1..Len(last.results) : last.results[i].file_id # last.file_id

RECURSIVE IsSubSeq(_, _)
IsSubSeq(s, t) ==
    IF s = <<>> THEN TRUE
    ELSE IF t = <<>> THEN FALSE
    ELSE IF Head(s) = Head(t) THEN IsSubSeq(Tail(s), Tail(t))
    ELSE IsSubSeq(s, Tail(t))

\* C12: every result of search_text has similarity_score >= min_score, for
\* every min_score (0 and negative values too) and every store score; what
\* remains keeps the store's ranking order.
C12_ResultsReachMinScore ==
    (last.op = "search_text" /\ last.status = "ok") =>
        /\ \A i \in 1..Len(last.results) :
              last.results[i].similarity_score >= last.min_score
        /\ IsSubSeq(last.results, last.store_results)

(* ------------------------------------------------------------------ *)
(* FrameSampler: src/utils/frame_sampler.py (specification SpecSampler) *)
(* ------------------------------------------------------------------ *)
\* A video is its frame rate, its number of frames, the frames at which the
\* content detector finds a cut, and the frames whose decoding fails.  Frame
\* rates are whole numbers; a timestamp frame_number / video_fps is kept as
\* the pair of the two.
MaxFps == 3
MaxVideoFrames == 3

\* most frames sample_video returns for one video in a run; largest max_frames
MaxFrames == 2

\* max_frames = None
NoLimit == -1

MaxFrameArgs == {NoLimit} \cup (0..MaxFrames)

Videos ==
    { v \in [exists : BOOLEAN, opened : BOOLEAN, video_fps : 1..MaxFps,
             total_frames : 0..MaxVideoFrames,
             cuts : SUBSET (1..(MaxVideoFrames - 1)),
             bad : SUBSET (0..(MaxVideoFrames - 1))] :
        /\ v.opened => v.exists
        /\ \A c \in v.cuts : c < v.total_frames
        /\ \A b \in v.bad : b < v.total_frames
        /\ Cardinality(v.bad) <= 1 }

SampledFrame(n, video_fps) == [frame_number |-> n, timestamp |-> <<n, video_fps>>]

\* cap.read() of frame n: ret
read_ok(v, n) == v.opened /\ n < v.total_frames /\ n \notin v.bad

\* the elements of a set of numbers in ascending order
RECURSIVE Ascending(_)
Ascending(S) ==
    IF S = {} THEN <<>>
    ELSE LET m == CHOOSE x \in S : \A y \in S : x <= y
         IN  <<m>> \o Ascending(S \ {m})

\* _detect_scenes: the (start, end) frame pairs of the scenes the content
\* detector reports; none when the library is missing, when it raises, or
\* when it finds no cut
detect_scenes(available, v) ==
    IF ~available \/ ~v.opened \/ v.cuts = {}
    THEN <<>>
    ELSE LET starts == Ascending({0} \cup v.cuts)
         IN  [i \in 1..Len(starts) |->
                <<starts[i],
                  IF i < Len(starts) THEN starts[i + 1] ELSE v.total_frames>>]

\* `max_frames and len(frames) >= max_frames`
LimitReached(max_frames, n) ==
    max_frames # NoLimit /\ max_frames # 0 /\ n >= max_frames

\* int(video_fps / self.fps)
frame_interval(video_fps, fps) == video_fps \div fps

\* the while loop of _sample_fixed_interval from frame n on
RECURSIVE FixedLoop(_, _, _, _, _)
FixedLoop(v, interval, n, frames, max_frames) ==
    IF ~read_ok(v, n) THEN frames
    ELSE IF n % interval = 0
         THEN LET more == Append(frames, SampledFrame(n, v.video_fps))
              IN  IF LimitReached(max_frames, Len(more)) THEN more
                  ELSE FixedLoop(v, interval, n + 1, more, max_frames)
         ELSE FixedLoop(v, interval, n + 1, frames, max_frames)

sample_fixed_interval(v, fps, max_frames) ==
    IF ~v.opened
    THEN [status |-> "ValueError", frames |-> <<>>, strategy |-> "fixed_interval"]
    ELSE IF frame_interval(v.video_fps, fps) = 0
    THEN IF read_ok(v, 0)
         THEN [status |-> "ZeroDivisionError", frames |-> <<>>,
               strategy |-> "fixed_interval"]
         ELSE [status |-> "ok", frames |-> <<>>, strategy |-> "fixed_interval"]
    ELSE [status |-> "ok",
          frames |-> FixedLoop(v, frame_interval(v.video_fps, fps), 0, <<>>, max_frames),
          strategy |-> "fixed_interval"]

\* the for loop of _sample_scene_detect from scene i on
RECURSIVE SceneLoop(_, _, _, _, _)
SceneLoop(v, scene_list, i, frames, max_frames) ==
    IF i > Len(scene_list) \/ LimitReached(max_frames, Len(frames)) THEN frames
    ELSE LET start_frame == scene_list[i][1]
         IN  SceneLoop(v, scene_list, i + 1,
                       IF read_ok(v, start_frame)
                       THEN Append(frames, SampledFrame(start_frame, v.video_fps))
                       ELSE frames,
                       max_frames)

sample_scene_detect(available, v, fps, max_frames) ==
    LET scene_list == detect_scenes(available, v)
    IN  IF scene_list = <<>>
        THEN sample_fixed_interval(v, fps, max_frames)
        ELSE [status |-> "ok",
              frames |-> SceneLoop(v, scene_list, 1, <<>>, max_frames),
              strategy |-> "scene_detect"]

sample_video(s, available, v, max_frames) ==
    IF ~v.exists
    THEN [status |-> "FileNotFoundError", frames |-> <<>>, strategy |-> "none"]
    ELSE IF s.method = "scene_detect"
    THEN sample_scene_detect(available, v, s.fps, max_frames)
    ELSE sample_fixed_interval(v, s.fps, max_frames)

Methods == {"scene_detect", "fixed_interval"}

\* FrameSampler.__init__ without the downgrade of the method
FrameSampler_NoDowngrade(method, fps, available) == [method |-> method, fps |-> fps]

\* FrameSampler.__init__
FrameSampler(method, fps, available) ==
    [method |-> IF method = "scene_detect" /\ ~available
                THEN "fixed_interval" ELSE method,
     fps |-> fps]

NoSample == [strategy |-> "none", scenes |-> 0]

InitSampler ==
    /\ SCENEDETECT_AVAILABLE \in BOOLEAN
    /\ \E method \in Methods, fps \in 1..MaxFps :
          /\ sampler = FrameSampler(method, fps, SCENEDETECT_AVAILABLE)
          /\ sampled = [op |-> "new", requested |-> method, prev |-> NoSample]
    /\ NoStore
    /\ NoDirectory
    /\ NoEncoding
    /\ NoRun
    /\ NoServe

NewSampler ==
    \E method \in Methods, fps \in 1..MaxFps :
        /\ sampler' = FrameSampler(method, fps, SCENEDETECT_AVAILABLE)
        /\ sampled' = [op |-> "new", requested |-> method, prev |-> NoSample]
        /\ UNCHANGED <<SCENEDETECT_AVAILABLE, notSamplerVars>>

\* sample_video leaves the sampler as it is: no assignment to self.method
SampleVideo ==
    \E v \in Videos, max_frames \in MaxFrameArgs :
        /\ sampled.op # "sample_video"
        /\ sampled' =
              [op |-> "sample_video", requested |-> sampled.requested,
               video |-> v, max_frames |-> max_frames,
               scene_list |-> detect_scenes(SCENEDETECT_AVAILABLE, v),
               method |-> sampler.method,
               out |-> sample_video(sampler, SCENEDETECT_AVAILABLE, v, max_frames),
               prev |-> sampled.prev]
        /\ UNCHANGED <<SCENEDETECT_AVAILABLE, sampler, notSamplerVars>>

\* the caller takes what the call returned or raised (index.py, the loop of
\* _index_videos) before it calls the sampler again
FramesTaken ==
    /\ sampled.op = "sample_video"
    /\ sampled' = [op |-> "taken", requested |-> sampled.requested,
                   prev |-> [strategy |-> sampled.out.strategy,
                             scenes |-> Len(sampled.scene_list)]]
    /\ UNCHANGED <<SCENEDETECT_AVAILABLE, sampler, notSamplerVars>>

NextSampler == NewSampler \/ SampleVideo \/ FramesTaken

SpecSampler == InitSampler /\ [][NextSampler]_vars

(* ------------------------------------------------------------------ *)
(* Claims about FrameSampler (SpecSampler)                             *)
(* ------------------------------------------------------------------ *)
\* a sample_video call on an existing video has returned or raised
Sampled == sampled.op = "sample_video" /\ sampled.video.exists

\* the first k elements of a sequence; all of it for max_frames = None
FirstFrames(frames, max_frames) ==
    IF max_frames = NoLimit \/ max_frames >= Len(frames) THEN frames
    ELSE SubSeq(frames, 1, max_frames)

\* C21: scene-detect sampling of a video with a non-empty scene list returns
\* one frame per scene, at the scene's start frame, in scene order, for the
\* first min(max_frames, number of scenes) scenes.
C21_OneFramePerScene ==
    (Sampled /\ sampled.out.strategy = "scene_detect") =>
        /\ sampled.out.status = "ok"
        /\ sampled.out.frames =
              FirstFrames([i \in 1..Len(sampled.scene_list) |->
                              SampledFrame(sampled.scene_list[i][1],
                                           sampled.video.video_fps)],
                          sampled.max_frames)

\* round(video_fps / fps), half to even
RoundedInterval(video_fps, fps) ==
    LET q == video_fps \div fps
        r == video_fps % fps
    IN  IF 2 * r < fps THEN q
        ELSE IF 2 * r > fps THEN q + 1
        ELSE IF q % 2 = 0 THEN q ELSE q + 1

IsMultiple(n, k) == \E m \in 0..n : n = m * k

\* the frames of v that decode before the first failing read
Decoded(v) == {n \in 0..(v.total_frames - 1) : \A m \in 0..n : read_ok(v, m)}

\* C22: fixed-interval sampling returns the decoded frames whose index is a
\* multiple of round(video_fps / fps), ascending, the first max_frames of them.
C22_FixedIntervalFrames ==
    (Sampled /\ sampled.out.strategy = "fixed_interval" /\ sampled.video.opened) =>
        LET v == sampled.video
            k == RoundedInterval(v.video_fps, sampler.fps)
            picked == Ascending({n \in Decoded(v) : IsMultiple(n, k)})
        IN  /\ sampled.out.status = "ok"
            /\ sampled.out.frames =
                  FirstFrames([i \in 1..Len(picked) |-> SampledFrame(picked[i], v.video_fps)],
                              sampled.max_frames)

\* the frames the strategy of the call goes through, in its order
Visited ==
    IF sampled.out.strategy = "scene_detect"
    THEN [i \in 1..Len(sampled.scene_list) |-> sampled.scene_list[i][1]]
    ELSE [i \in 1..sampled.video.total_frames |-> i - 1]

\* C23: a video that cannot be opened makes sample_video raise; a failing
\* frame read ends the sampling, which returns the frames collected before it.
C23_StopsAtFailedRead ==
    /\ (sampled.op = "sample_video" /\ ~sampled.video.opened) =>
          (sampled.out.status # "ok" /\ sampled.out.frames = <<>>)
    /\ (Sampled /\ sampled.video.opened /\ sampled.out.status = "ok") =>
          \A i \in 1..Len(Visited) :
              (/\ ~read_ok(sampled.video, Visited[i])
               /\ \E h \in 1..(i - 1) : read_ok(sampled.video, Visited[h])) =>
                  \A j \in 1..Len(sampled.out.frames) :
                      \E h \in 1..(i - 1) :
                          Visited[h] = sampled.out.frames[j].frame_number

\* C28: a sampler asked for scene detection without the detector is a
\* fixed-interval sampler in every call; a scene-detect sampler samples a
\* video without scenes by fixed interval, keeps its method, and samples a
\* video with scenes by scene detection whatever the call before did.
C28_StrategyIsStable ==
    /\ (sampled.requested = "scene_detect" /\ ~SCENEDETECT_AVAILABLE) =>
          /\ sampler.method = "fixed_interval"
          /\ Sampled => sampled.out.strategy = "fixed_interval"
    /\ (Sampled /\ sampled.method = "scene_detect") =>
          /\ sampler.method = "scene_detect"
          /\ sampled.out.strategy =
                IF sampled.scene_list = <<>> THEN "fixed_interval" ELSE "scene_detect"

\* a video with scenes sampled by scene detection right after a video without
C28_Witness ==
    /\ Sampled
    /\ sampled.method = "scene_detect"
    /\ sampled.prev = [strategy |-> "fixed_interval", scenes |-> 0]
    /\ sampled.out.strategy = "scene_detect"
    /\ Len(sampled.out.frames) > 0

(* ------------------------------------------------------------------ *)
(* ChronosIndexer                                                      *)
(* ------------------------------------------------------------------ *)
\* A record id is the content hash for an image and the content hash with
\* "_f<frame number>" appended for a video frame.
NoFrame == -1

ImageId(file_hash) == [hash |-> file_hash, frame |-> NoFrame]

\* a frame id without the frame number
FrameId_HashOnly(file_hash, frame_number) == [hash |-> file_hash, frame |-> 0]

\* f"{video.file_hash}_f{frame.frame_number}"
FrameId(file_hash, frame_number) == [hash |-> file_hash, frame |-> frame_number]

OfType(files, type) == SelectSeq(files, LAMBDA mf : mf.file_type = type)

FileMetadata(mf) ==
    [file_path |-> mf.path, file_type |-> mf.file_type, size_bytes |-> mf.size_bytes]

FrameMetadata(mf, frame) ==
    [file_path |-> mf.path, file_type |-> mf.file_type, size_bytes |-> mf.size_bytes,
     timestamp |-> frame.timestamp, frame_number |-> frame.frame_number]

\* what FrameSampler.sample_video does for one video: it raises, or returns
\* n frames (possibly none), frame numbers ascending
Samples == [raises : BOOLEAN, n : 0..MaxFrames]

Frames(sample) == [i \in 1..sample.n |-> [frame_number |-> i - 1, timestamp |-> i - 1]]

\* does an exception of add_embeddings leave _index_images / _index_videos
StoreRaises_Swallowed(status) == FALSE

StoreRaises(status) == status # "ok"

\* the body of the try block of _index_videos for one video; temp_dir is what
\* became of tempfile.mkdtemp(): never called, removed by the clean-up that
\* ends the try block, or left when an exception skipped the clean-up
try_video(video, sample, provider_ok) ==
    LET frames == Frames(sample)
        temp_paths == [i \in 1..Len(frames) |->
                          [name |-> FrameId(video.file_hash, frames[i].frame_number),
                           loads |-> TRUE]]
        enc == encode_images(temp_paths, MaxBatchSize, provider_ok)
        nothing == [ids |-> <<>>, embeddings |-> <<>>, metadatas |-> <<>>]
    IN IF sample.raises
       THEN [outcome |-> "sample_raised", exception |-> TRUE, temp_dir |-> "none"] @@ nothing
       ELSE IF frames = <<>>
       THEN [outcome |-> "no_frames", exception |-> FALSE, temp_dir |-> "none"] @@ nothing
       ELSE IF enc.status # "ok"
       THEN [outcome |-> "encode_raised", exception |-> TRUE, temp_dir |-> "left"] @@ nothing
       ELSE [outcome |-> "ok", exception |-> FALSE, temp_dir |-> "removed",
             ids |-> [i \in 1..Len(frames) |-> FrameId(video.file_hash, frames[i].frame_number)],
             embeddings |-> [i \in 1..Len(frames) |-> enc.rows[i]],
             metadatas |-> [i \in 1..Len(frames) |-> FrameMetadata(video, frames[i])]]

\* the try block without its except clause
process_video_Uncaught(video, sample, provider_ok) ==
    LET r == try_video(video, sample, provider_ok)
    IN r @@ [propagates |-> r.exception]

\* one pass of the loop of _index_videos: `except Exception: continue`
process_video(video, sample, provider_ok) ==
    try_video(video, sample, provider_ok) @@ [propagates |-> FALSE]

\* the calls one video of the loop makes, by its outcome
VideoEvents(outcome) ==
    IF outcome \in {"sample_raised", "no_frames"}
    THEN <<"sample_video">>
    ELSE <<"sample_video", "encode_frames">>

Count(events, e) == Cardinality({i \in 1..Len(events) : events[i] = e})

\* the end of index_directory without the update of the ignore file
finish_run_NoCommit(indexed, persisted, files, save_ok) ==
    [indexed |-> indexed, persisted |-> persisted, events |-> <<"offload_model">>]

\* the end of index_directory: scanner.update_ignore_file(media_files), the
\* final statistics, embedder.offload_model()
finish_run(indexed, persisted, files, save_ok) ==
    LET r == update_ignore_file(indexed, persisted, files, save_ok)
    IN [indexed |-> r.indexed, persisted |-> r.persisted,
        events |-> <<"update_ignore_file", "offload_model">>]

\* what root_path can be: nothing, a file, or a directory, with any rights
Roots ==
    {r \in [exists : BOOLEAN, is_dir : BOOLEAN, readable : BOOLEAN, writable : BOOLEAN] :
        ~r.exists => (~r.is_dir /\ ~r.readable /\ ~r.writable)}

\* validation left out
validate_path_Skipped(r) == [is_valid |-> TRUE, message |-> "validated"]

\* MediaScanner.validate_path
validate_path(r) ==
    IF ~r.exists THEN [is_valid |-> FALSE, message |-> "does_not_exist"]
    ELSE IF ~r.is_dir THEN [is_valid |-> FALSE, message |-> "not_a_directory"]
    ELSE IF ~r.readable THEN [is_valid |-> FALSE, message |-> "no_read_permission"]
    ELSE IF ~r.writable THEN [is_valid |-> FALSE, message |-> "no_write_permission"]
    ELSE [is_valid |-> TRUE, message |-> "validated"]

\* most index_directory calls of a behaviour
MaxRuns == 2

InitRun(n, incremental, files) ==
    [op |-> "index_directory", n |-> n, incremental |-> incremental,
     pre_indexed |-> indexed_files, pre_ignore |-> ignore_file,
     pre_coll |-> collection, error |-> "",
     prev |-> IF run = NoCall \/ run.raised # "video_store"
              THEN [raised |-> "", files |-> <<>>, image_ids |-> <<>>, pre_indexed |-> {},
                    pre_ignore |-> {}]
              ELSE [raised |-> run.raised, files |-> run.files,
                    image_ids |-> IF run.image_add.status = "ok"
                                  THEN run.image_add.ids ELSE <<>>,
                    pre_indexed |-> run.pre_indexed, pre_ignore |-> run.pre_ignore],
     files |-> files, outcomes |-> <<>>, write_failed |-> FALSE, loads |-> <<>>,
     image_add |-> [called |-> FALSE, ids |-> <<>>, status |-> ""],
     video_add |-> [called |-> FALSE, ids |-> <<>>, status |-> ""],
     events |-> IF validate_path(root).is_valid THEN <<"scan_directory">> ELSE <<>>,
     raised |-> "", update_calls |-> 0, offload_calls |-> 0]

RunCount == IF run = NoCall THEN 0 ELSE run.n

\* most files of the tree that index_directory runs on
MaxRunFiles == 3

\* A run sees a file through its fingerprint and its size only, and the two
\* large contents have both in common: one of them stands for the pair.
RunFiles == {f \in Files : f.readable /\ f.content.mid = 1}

\* the trees of Spec: readable files only
Init ==
    /\ dir \in [Paths -> RunFiles \cup {NoFile}]
    /\ Present(dir) \subseteq TreePaths
    /\ Cardinality(Present(dir)) <= MaxRunFiles
    /\ indexed_files = {}
    /\ ignore_file = {}
    /\ scan = NoCall
    /\ since = NoChange("unknown", 0)
    /\ embedding_dim = EmbedDim
    /\ collection = EmptyCollection
    /\ coll_dim = NoDim
    /\ first_width = NoDim
    /\ last = NoCall
    /\ NoEncoding
    /\ pc = "idle"
    /\ media_files = <<>>
    /\ video_pos = 0
    /\ all_ids = <<>>
    /\ all_embeddings = <<>>
    /\ all_metadatas = <<>>
    /\ run = NoCall
    /\ root \in Roots
    /\ (root.exists /\ root.is_dir) \/ Present(dir) = {}
    /\ NoServe
    /\ NoSampler

\* index_directory up to the scan: validate_path, scan_directory, and the
\* early return when the scan found nothing
StartRun ==
    /\ pc \in {"idle", "done", "failed"}
    /\ RunCount < MaxRuns
    /\ \E incremental \in BOOLEAN :
        LET v == validate_path(root)
            files == IF v.is_valid
                     THEN scan_directory(dir, indexed_files, incremental) ELSE <<>>
        IN /\ media_files' = files
           /\ run' = IF v.is_valid
                     THEN InitRun(RunCount + 1, incremental, files)
                     ELSE [InitRun(RunCount + 1, incremental, files)
                              EXCEPT !.raised = "validate_path", !.error = v.message]
           /\ pc' = IF ~v.is_valid THEN "failed"
                    ELSE IF files = <<>> THEN "done" ELSE "images"
    /\ video_pos' = 0
    /\ all_ids' = <<>>
    /\ all_embeddings' = <<>>
    /\ all_metadatas' = <<>>
    /\ UNCHANGED <<root, dbVars, fsVars, scanVars, encVars, serveVars, samplerVars>>

\* `if images: self._index_images(images)`
IndexImages ==
    /\ pc = "images"
    /\ LET images == OfType(media_files, "image") IN
       IF images = <<>>
       THEN /\ pc' = "videos"
            /\ UNCHANGED <<run, dbVars>>
       ELSE \E loads \in [1..Len(images) -> BOOLEAN], provider_ok, io_fail \in BOOLEAN :
            LET image_paths == [i \in 1..Len(images) |->
                                   [name |-> images[i].path, loads |-> loads[i]]]
                enc == encode_images(image_paths, MaxBatchSize, provider_ok)
                ids == [i \in 1..Len(images) |-> ImageId(images[i].file_hash)]
                metadatas == [i \in 1..Len(images) |-> FileMetadata(images[i])]
                r == add_embeddings(embedding_dim, collection, coll_dim, ids,
                                    [w |-> enc.w, rows |-> enc.rows], metadatas, io_fail)
            IN IF enc.status # "ok"
               THEN /\ pc' = "failed"
                    /\ run' = [run EXCEPT !.raised = "encode_images",
                                          !.events = Append(@, "encode_images")]
                    /\ UNCHANGED dbVars
               ELSE /\ embedding_dim' = r.dim
                    /\ collection' = r.coll
                    /\ coll_dim' = r.cdim
                    /\ first_width' = IF first_width = NoDim /\ r.status = "ok"
                                      THEN enc.w ELSE first_width
                    /\ run' = [run EXCEPT !.write_failed = @ \/ r.status # "ok",
                                          !.loads = loads,
                                          !.image_add = [called |-> TRUE, ids |-> ids,
                                                         status |-> r.status],
                                          !.events = @ \o <<"encode_images", "add_images">>,
                                          !.raised = IF StoreRaises(r.status)
                                                     THEN "image_store" ELSE @]
                    /\ pc' = IF StoreRaises(r.status) THEN "failed" ELSE "videos"
                    /\ UNCHANGED last
    /\ video_pos' = 1
    /\ UNCHANGED <<media_files, all_ids, all_embeddings, all_metadatas>>
    /\ UNCHANGED <<root, fsVars, scanVars, encVars, serveVars, samplerVars>>

\* one video of the loop of _index_videos
ProcessVideo ==
    /\ pc = "videos"
    /\ LET videos == OfType(media_files, "video") IN
       /\ video_pos <= Len(videos)
       /\ \E sample \in Samples, provider_ok \in BOOLEAN :
            LET r == process_video(videos[video_pos], sample, provider_ok)
            IN /\ all_ids' = all_ids \o r.ids
               /\ all_embeddings' = all_embeddings \o r.embeddings
               /\ all_metadatas' = all_metadatas \o r.metadatas
               /\ run' = [run EXCEPT !.outcomes = Append(@, [outcome |-> r.outcome, ids |-> r.ids,
                                                             temp_dir |-> r.temp_dir,
                                                             video |-> videos[video_pos],
                                                             frames |-> IF r.outcome = "ok"
                                                                        THEN Frames(sample)
                                                                        ELSE <<>>]),
                                     !.events = @ \o VideoEvents(r.outcome),
                                     !.raised = IF r.propagates THEN "video" ELSE @]
               /\ pc' = IF r.propagates THEN "failed" ELSE "videos"
    /\ video_pos' = video_pos + 1
    /\ UNCHANGED <<root, media_files, dbVars, fsVars, scanVars, encVars, serveVars, samplerVars>>

\* after the loop: `if all_embeddings: self.database.add_embeddings(...)`
UpsertVideos ==
    /\ pc = "videos"
    /\ video_pos > Len(OfType(media_files, "video"))
    /\ IF all_embeddings = <<>>
       THEN /\ pc' = "commit"
            /\ UNCHANGED <<run, dbVars>>
       ELSE \E io_fail \in BOOLEAN :
            LET r == add_embeddings(embedding_dim, collection, coll_dim, all_ids,
                                    [w |-> EmbedDim, rows |-> all_embeddings],
                                    all_metadatas, io_fail)
            IN /\ embedding_dim' = r.dim
               /\ collection' = r.coll
               /\ coll_dim' = r.cdim
               /\ first_width' = IF first_width = NoDim /\ r.status = "ok"
                                 THEN EmbedDim ELSE first_width
               /\ run' = [run EXCEPT !.write_failed = @ \/ r.status # "ok",
                                     !.video_add = [called |-> TRUE, ids |-> all_ids,
                                                    status |-> r.status],
                                     !.events = Append(@, "add_frames"),
                                     !.raised = IF StoreRaises(r.status)
                                                THEN "video_store" ELSE @]
               /\ pc' = IF StoreRaises(r.status) THEN "failed" ELSE "commit"
               /\ UNCHANGED last
    /\ UNCHANGED <<media_files, video_pos, all_ids, all_embeddings, all_metadatas>>
    /\ UNCHANGED <<root, fsVars, scanVars, encVars, serveVars, samplerVars>>

\* the end of index_directory: update_ignore_file(media_files), the final
\* statistics and embedder.offload_model()
Commit ==
    /\ pc = "commit"
    /\ \E save_ok \in BOOLEAN :
        LET r == finish_run(indexed_files, ignore_file, media_files, save_ok)
        IN /\ indexed_files' = r.indexed
           /\ ignore_file' = r.persisted
           /\ run' = [run EXCEPT !.events = @ \o r.events,
                                 !.update_calls = @ + Count(r.events, "update_ignore_file"),
                                 !.offload_calls = @ + Count(r.events, "offload_model")]
    /\ pc' = "done"
    /\ UNCHANGED <<dir, media_files, video_pos, all_ids, all_embeddings, all_metadatas>>
    /\ UNCHANGED <<root, dbVars, scanVars, encVars, serveVars, samplerVars>>

Next == StartRun \/ IndexImages \/ ProcessVideo \/ UpsertVideos \/ Commit

Spec == Init /\ [][Next]_vars

(* ------------------------------------------------------------------ *)
(* Runs and store maintenance together (specification SpecMaintain)    *)
(* ------------------------------------------------------------------ *)
\* a valid root with a tree of readable files, an empty store
InitMaintain ==
    /\ dir \in [Paths -> RunFiles \cup {NoFile}]
    /\ Present(dir) \subseteq TreePaths
    /\ Cardinality(Present(dir)) <= MaxInitialFiles
    /\ indexed_files = {}
    /\ ignore_file = {}
    /\ scan = NoCall
    /\ since = NoChange("unknown", 0)
    /\ embedding_dim = EmbedDim
    /\ collection = EmptyCollection
    /\ coll_dim = NoDim
    /\ first_width = NoDim
    /\ last = NoCall
    /\ NoEncoding
    /\ NoRun
    /\ NoServe
    /\ NoSampler

\* a maintenance call comes between two runs, once in a behaviour
MaintenanceMayRun ==
    /\ pc \in {"idle", "done", "failed"}
    /\ last = NoCall
    /\ RunCount < MaxRuns

\* database.delete_by_id(id) for a stored record
DeleteStored ==
    /\ MaintenanceMayRun
    /\ \E x \in DOMAIN collection :
        /\ collection' = delete_by_id(collection, x)
        /\ last' = [op |-> "delete", ids |-> {x}]
    /\ UNCHANGED <<embedding_dim, coll_dim, first_width>>
    /\ UNCHANGED notDbVars

\* database.delete_by_filter({"file_path": path}) for the path of a stored record
DeleteByFilter ==
    /\ MaintenanceMayRun
    /\ \E path \in {collection[x].meta.file_path : x \in DOMAIN collection} :
        /\ collection' = delete_by_filter(collection, path)
        /\ last' = [op |-> "delete",
                    ids |-> {x \in DOMAIN collection : collection[x].meta.file_path = path}]
    /\ UNCHANGED <<embedding_dim, coll_dim, first_width>>
    /\ UNCHANGED notDbVars

\* database.reset()
ResetStore ==
    /\ MaintenanceMayRun
    /\ collection # EmptyCollection
    /\ Reset

NextMaintain == Next \/ DeleteStored \/ DeleteByFilter \/ ResetStore

SpecMaintain == InitMaintain /\ [][NextMaintain]_vars

(* ------------------------------------------------------------------ *)
(* Claims about ChronosIndexer                                         *)
(* ------------------------------------------------------------------ *)
RunHashes == {run.files[i].file_hash : i \in 1..Len(run.files)}

StoredHashes == {id.hash : id \in DOMAIN collection}

RunVideos == OfType(run.files, "video")

RECURSIVE IdsOf(_)
IdsOf(outcomes) ==
    IF outcomes = <<>> THEN <<>> ELSE Head(outcomes).ids \o IdsOf(Tail(outcomes))

\* C1: when a Vector Store write of a run (the image add_embeddings or the
\* video-frame add_embeddings) raises, index_directory ends with that error,
\* update_ignore_file is not called in the run, and neither the in-memory
\* nor the persisted fingerprint set holds a hash of the run that it did
\* not hold before the run.
C1_NoPartialCommit ==
    (run # NoCall /\ run.write_failed) =>
        /\ pc = "failed"
        /\ run.raised \in {"image_store", "video_store"}
        /\ run.update_calls = 0
        /\ \A h \in RunHashes :
            /\ h \notin run.pre_indexed => h \notin indexed_files
            /\ h \notin run.pre_ignore => h \notin ignore_file

\* the video-frame write raised after the image write of the same run had
\* put its records into the store
C1_Witness ==
    /\ run # NoCall
    /\ run.n = 1
    /\ run.raised = "video_store"
    /\ pc = "failed"
    /\ \E i \in 1..Len(run.files) :
        /\ run.files[i].file_type = "image"
        /\ ImageId(run.files[i].file_hash) \in DOMAIN collection
        /\ run.files[i].file_hash \notin indexed_files

\* C2: every content hash of the fingerprint set has at least one record in
\* the Vector Store; a video skipped because sampling raised or returned no
\* frames is not marked as indexed.
C2_FingerprintedHashesAreStored ==
    (indexed_files \cup ignore_file) \subseteq StoredHashes

\* C9: a failure while processing one video (sample_video raising, no frames,
\* encoding raising) never leaves _index_videos; every video of the run is
\* processed, the add_embeddings call after the loop receives exactly the
\* frame records of the videos that did not fail, and when that call returns
\* their ids are in the store.
C9_VideoFailureIsSkipped ==
    run # NoCall =>
        /\ run.raised # "video"
        /\ (pc = "videos" =>
               /\ Len(run.outcomes) = video_pos - 1
               /\ video_pos <= Len(RunVideos) + 1)
        /\ (run.video_add.called \/ pc = "commit" \/ (pc = "done" /\ run.files # <<>>)) =>
               /\ Len(run.outcomes) = Len(RunVideos)
               /\ all_ids = IdsOf(run.outcomes)
               /\ Len(all_embeddings) = Len(all_ids)
               /\ Len(all_metadatas) = Len(all_ids)
               /\ all_ids # <<>> => run.video_add.called /\ run.video_add.ids = all_ids
               /\ pc \in {"commit", "done"} => Range(all_ids) \subseteq DOMAIN collection

\* the first video of a run failed and a later video of the same run has its
\* frame records in the store at the end of the run
C9_Witness ==
    /\ run # NoCall
    /\ run.n = 1
    /\ pc = "done"
    /\ \E i, j \in 1..Len(run.outcomes) :
        /\ i < j
        /\ run.outcomes[i].outcome \in {"sample_raised", "no_frames", "encode_raised"}
        /\ run.outcomes[j].outcome = "ok"
        /\ run.outcomes[j].ids # <<>>
        /\ Range(run.outcomes[j].ids) \subseteq DOMAIN collection

\* the stage of a run that a call belongs to
Stage(e) ==
    CASE e = "scan_directory" -> 1
      [] e \in {"encode_images", "add_images"} -> 2
      [] e \in {"sample_video", "encode_frames", "add_frames"} -> 3
      [] e = "update_ignore_file" -> 4
      [] e = "offload_model" -> 5

Positions(events, S) == {i \in 1..Len(events) : events[i] \in S}

EmbedderOrStoreCalls ==
    {"encode_images", "add_images", "encode_frames", "add_frames"}

\* C15: the calls of a run come in the order scan, images, videos, commit; no
\* embedder call and no store write comes before the scan returned;
\* update_ignore_file is called exactly once in a run that found at least one
\* item and finished without error, after every add_embeddings call of the run.
C15_RunOrder ==
    run # NoCall =>
        /\ \A i, j \in 1..Len(run.events) :
              i < j => Stage(run.events[i]) <= Stage(run.events[j])
        /\ \A i \in Positions(run.events, EmbedderOrStoreCalls) :
              \E j \in Positions(run.events, {"scan_directory"}) : j < i
        /\ (pc = "done" /\ run.files # <<>>) =>
              /\ Count(run.events, "update_ignore_file") = 1
              /\ \A i \in Positions(run.events, {"add_images", "add_frames"}) :
                    \A j \in Positions(run.events, {"update_ignore_file"}) : i < j
        /\ pc # "done" => Count(run.events, "update_ignore_file") = 0

\* a run with an image write and a video write has finished and committed
C15_Witness ==
    /\ run # NoCall
    /\ pc = "done"
    /\ Positions(run.events, {"add_images"}) # {}
    /\ Positions(run.events, {"add_frames"}) # {}
    /\ Count(run.events, "update_ignore_file") = 1

AllChecksPass == root.exists /\ root.is_dir /\ root.readable /\ root.writable

FirstFailingCheck ==
    CHOOSE reason \in {"does_not_exist", "not_a_directory", "no_read_permission",
                       "no_write_permission"} :
        \/ reason = "does_not_exist" /\ ~root.exists
        \/ reason = "not_a_directory" /\ root.exists /\ ~root.is_dir
        \/ reason = "no_read_permission" /\ root.exists /\ root.is_dir /\ ~root.readable
        \/ reason = "no_write_permission" /\ root.exists /\ root.is_dir /\ root.readable
              /\ ~root.writable

\* C16: when one of the four checks of validate_path fails (exists, is a
\* directory, readable, writable), index_directory raises with the reason of
\* the first failing check, without any store write or fingerprint commit;
\* the path is valid only when all four checks pass.
C16_InvalidPathAbortsRun ==
    run # NoCall =>
        /\ run.raised = "validate_path" <=> ~AllChecksPass
        /\ ~AllChecksPass =>
              /\ pc = "failed"
              /\ run.error = FirstFailingCheck
              /\ run.events = <<>>
              /\ collection = run.pre_coll
              /\ indexed_files = run.pre_indexed
              /\ ignore_file = run.pre_ignore

\* a run was refused on a directory that holds media files but is not writable
C16_Witness ==
    /\ run # NoCall
    /\ run.raised = "validate_path"
    /\ run.error = "no_write_permission"
    /\ Present(dir) # {}

\* C18: the record ids passed to the store within one run are pairwise
\* distinct, whatever the directory holds, byte-identical files at different
\* paths included.
C18_RunIdsAreDistinct ==
    run # NoCall => ~HasDuplicates(run.image_add.ids \o run.video_add.ids)

\* a run that follows, in incremental mode, a run that failed in the
\* video-frame write after its image write had succeeded
IsRetry ==
    /\ run # NoCall
    /\ run.incremental
    /\ run.prev.raised = "video_store"
    /\ run.prev.image_ids # <<>>

\* the retry is over and neither the embedder nor the store's disk failed in it
RetryEndedUndisturbed ==
    /\ pc \in {"done", "failed"}
    /\ run.raised # "encode_images"
    /\ run.image_add.status # "store_write_error"
    /\ run.video_add.status # "store_write_error"

RetryOutcome ==
    /\ Range(run.prev.image_ids) \subseteq DOMAIN run.pre_coll
    /\ run.pre_indexed = run.prev.pre_indexed
    /\ run.pre_ignore = run.prev.pre_ignore
    /\ run.files = run.prev.files
    /\ RetryEndedUndisturbed =>
          /\ pc = "done"
          /\ run.raised = ""
          /\ Range(run.image_add.ids \o run.video_add.ids) \subseteq DOMAIN collection
          /\ RunHashes \subseteq indexed_files

\* C19: after a run that failed in the video-frame write once the image write
\* had succeeded, the image records are in the store and the fingerprint set
\* is unchanged; the following incremental run finds the same items, writes
\* the same ids without error and ends with every id stored and every item
\* committed.
C19_RetryIsSafe == IsRetry => RetryOutcome

\* C25: when the loop of _index_videos goes on to the next video, or ends,
\* the temporary directory of every video processed so far has been removed.
C25_TempDirReleased ==
    run # NoCall =>
        \A i \in 1..Len(run.outcomes) : run.outcomes[i].temp_dir # "left"

\* the records the videos processed so far have to contribute: one per
\* sampled frame of every video that was sampled and encoded
RECURSIVE FrameRecords(_)
FrameRecords(outcomes) ==
    IF outcomes = <<>> THEN <<>>
    ELSE LET o == Head(outcomes)
         IN  [j \in 1..Len(o.frames) |->
                [id |-> [hash |-> o.video.file_hash, frame |-> o.frames[j].frame_number],
                 vec |-> [dir |-> [hash |-> o.video.file_hash,
                                   frame |-> o.frames[j].frame_number],
                          norm |-> "unit"],
                 meta |-> [file_path |-> o.video.path, file_type |-> "video",
                           size_bytes |-> o.video.size_bytes,
                           timestamp |-> o.frames[j].timestamp,
                           frame_number |-> o.frames[j].frame_number]]]
             \o FrameRecords(Tail(outcomes))

\* C26: the ids, vectors and metadata collected by _index_videos are, index by
\* index, those of the sampled frames of the videos that were sampled and
\* encoded, skipped videos contributing nothing; these lists are what the
\* store is given; and a run that ends well from an empty store leaves as
\* many records as it had images and sampled frames.
C26_OneAlignedRecordPerFrame ==
    run # NoCall =>
        LET expected == FrameRecords(run.outcomes) IN
        /\ all_ids = [k \in 1..Len(expected) |-> expected[k].id]
        /\ all_embeddings = [k \in 1..Len(expected) |-> expected[k].vec]
        /\ all_metadatas = [k \in 1..Len(expected) |-> expected[k].meta]
        /\ run.video_add.called => run.video_add.ids = all_ids
        /\ (run.video_add.called /\ run.video_add.status = "ok") =>
              \A k \in 1..Len(expected) : expected[k].id \in DOMAIN collection
        /\ (pc = "done" /\ run.pre_coll = EmptyCollection) =>
              count(collection) = Len(OfType(run.files, "image")) + Len(expected)

\* a run from an empty store with an image, a skipped video and then a video
\* of two frames
C26_Witness ==
    /\ run # NoCall
    /\ pc = "done"
    /\ run.pre_coll = EmptyCollection
    /\ OfType(run.files, "image") # <<>>
    /\ Len(run.outcomes) = 2
    /\ run.outcomes[1].outcome # "ok"
    /\ Len(run.outcomes[2].frames) = 2
    /\ count(collection) = 3

\* the images of the run whose load failed in an encode_images call that
\* returned
FailedLoads ==
    {i \in 1..Len(run.loads) : ~run.loads[i]}

\* C27: an image whose load fails does not stop the run; once the image write
\* returned, the store holds a record under its hash with the all-zero
\* vector; once the run is done its hash is in the fingerprint set and an
\* incremental scan does not return it.
C27_FailedLoadIsStoredAsZero ==
    (run # NoCall /\ run.image_add.status = "ok") =>
        \A i \in FailedLoads :
            LET img == OfType(run.files, "image")[i] IN
            /\ ImageId(img.file_hash) \in DOMAIN collection
            /\ collection[ImageId(img.file_hash)].vec.val = ZeroRow
            /\ pc = "done" =>
                  /\ img.file_hash \in indexed_files
                  /\ \A k \in 1..Len(scan_directory(dir, indexed_files, TRUE)) :
                        scan_directory(dir, indexed_files, TRUE)[k].path # img.path

\* the step is the update_ignore_file call of a run
IsUpdateIgnoreFile == pc = "commit" /\ pc' = "done"

\* the step starts a run whose scan is incremental
IsIncrementalScan == pc' # "failed" /\ run' # run /\ run'.n # RunCount /\ run'.incremental

EncodeCalls == {"encode_images", "encode_frames"}

\* C20: a pass that completes, one whose scan found no new files included,
\* has called offload_model exactly once, after its last encode call and
\* after update_ignore_file.
C20_OffloadOncePerPass ==
    (run # NoCall /\ pc = "done") =>
        /\ Count(run.events, "offload_model") = 1
        /\ \A i \in Positions(run.events, {"offload_model"}) :
              \A j \in Positions(run.events, EncodeCalls \cup {"update_ignore_file"}) :
                  j < i

(* ------------------------------------------------------------------ *)
(* The front ends: web_app/server.py and src/app.py                    *)
(* ------------------------------------------------------------------ *)
\* the web handlers are coroutines without an await: one runs at a time on
\* the event loop; background tasks and GUI workers run in threads
EventLoopFree == \A r \in Requests : search_pc[r] = "idle"

\* the test that guards a start-indexing request
IndexingRejected ==
    IF frontend = "web" THEN indexing_status.active ELSE idx_btn = "disabled"

InitServe ==
    /\ frontend \in {"web", "gui"}
    /\ indexing_status = [active |-> FALSE]
    /\ idx_btn = "normal"
    /\ index_pc = [r \in Requests |-> "idle"]
    /\ search_pc = [r \in Requests |-> "idle"]
    /\ callbacks = 0
    /\ NoStore
    /\ NoDirectory
    /\ NoEncoding
    /\ NoRun
    /\ NoSampler

\* server.py start_indexing: HTTP 400 when indexing_status["active"], else
\* background_tasks.add_task(index_worker); app.py run_index: the button is
\* disabled and the worker thread started
StartIndexing(r) ==
    /\ index_pc[r] = "idle"
    /\ frontend = "web" => EventLoopFree
    /\ ~IndexingRejected
    /\ index_pc' = [index_pc EXCEPT ![r] = "queued"]
    /\ idx_btn' = IF frontend = "gui" THEN "disabled" ELSE idx_btn
    /\ UNCHANGED <<frontend, indexing_status, search_pc, callbacks, notServeVars>>

\* the worker starts: server.py index_worker sets indexing_status active, then
\* both workers build a ChronosIndexer, which loads the embedding model
WorkerBegins(r) ==
    /\ index_pc[r] = "queued"
    /\ index_pc' = [index_pc EXCEPT ![r] = "initializing"]
    /\ indexing_status' = IF frontend = "web" THEN [active |-> TRUE] ELSE indexing_status
    /\ UNCHANGED <<frontend, idx_btn, search_pc, callbacks, notServeVars>>

\* indexer.index_directory: scan, encode, upsert
WorkerIndexes(r) ==
    /\ index_pc[r] = "initializing"
    /\ index_pc' = [index_pc EXCEPT ![r] = "indexing"]
    /\ UNCHANGED <<frontend, indexing_status, idx_btn, search_pc, callbacks, notServeVars>>

\* index_directory reaches scanner.update_ignore_file: the ignore file is rewritten
WorkerCommits(r) ==
    /\ index_pc[r] = "indexing"
    /\ index_pc' = [index_pc EXCEPT ![r] = "committing"]
    /\ UNCHANGED <<frontend, indexing_status, idx_btn, search_pc, callbacks, notServeVars>>

\* the worker ends, normally or in its except branch: server.py sets
\* indexing_status inactive; app.py posts the callback that re-enables the button
WorkerEnds(r) ==
    /\ index_pc[r] \in {"initializing", "indexing", "committing"}
    /\ index_pc' = [index_pc EXCEPT ![r] = "idle"]
    /\ indexing_status' = IF frontend = "web" THEN [active |-> FALSE] ELSE indexing_status
    /\ callbacks' = IF frontend = "gui" THEN callbacks + 1 ELSE callbacks
    /\ UNCHANGED <<frontend, idx_btn, search_pc, notServeVars>>

\* app.py: the main loop runs a posted completion callback
GuiCallback ==
    /\ callbacks > 0
    /\ callbacks' = callbacks - 1
    /\ idx_btn' = "normal"
    /\ UNCHANGED <<frontend, indexing_status, index_pc, search_pc, notServeVars>>

\* server.py search / app.py run_search + _search_worker: the embedder is
\* loaded if needed and search_text called; neither looks at a running index
SearchBegins(r) ==
    /\ search_pc[r] = "idle"
    /\ frontend = "web" => EventLoopFree
    /\ search_pc' = [search_pc EXCEPT ![r] = "searching"]
    /\ UNCHANGED <<frontend, indexing_status, idx_btn, index_pc, callbacks, notServeVars>>

SearchEnds(r) ==
    /\ search_pc[r] = "searching"
    /\ search_pc' = [search_pc EXCEPT ![r] = "idle"]
    /\ UNCHANGED <<frontend, indexing_status, idx_btn, index_pc, callbacks, notServeVars>>

NextServe ==
    \/ \E r \in Requests :
        \/ StartIndexing(r)
        \/ WorkerBegins(r)
        \/ WorkerIndexes(r)
        \/ WorkerCommits(r)
        \/ WorkerEnds(r)
        \/ SearchBegins(r)
        \/ SearchEnds(r)
    \/ GuiCallback

SpecServe == InitServe /\ [][NextServe]_vars

ActiveRuns == {r \in Requests : index_pc[r] # "idle"}

EmbedderUses ==
    Cardinality({r \in Requests : index_pc[r] \in {"initializing", "indexing"}})
    + Cardinality({r \in Requests : search_pc[r] = "searching"})

\* C13: at most one indexing run is accepted and unfinished at any time, so
\* two runs never rewrite the ignore file concurrently.
C13_OneRunAtATime ==
    /\ Cardinality(ActiveRuns) <= 1
    /\ Cardinality({r \in Requests : index_pc[r] = "committing"}) <= 1

\* C14: at most one use of the embedder (loading it or calling it) is active
\* at any time, by indexing runs and searches together.
C14_OneEmbedderUseAtATime == EmbedderUses <= 1

\* C30: in the web server indexing_status.active is true whenever a worker is
\* building the indexer or running index_directory, and false once no
\* accepted request is unfinished.
C30_ActiveWhileAWorkerRuns ==
    frontend = "web" =>
        /\ (\E r \in Requests : index_pc[r] \in {"initializing", "indexing", "committing"})
              => indexing_status.active
        /\ ActiveRuns = {} => ~indexing_status.active

(* ------------------------------------------------------------------ *)
(* Claims about MediaScanner (SpecScan)                                *)
(* ------------------------------------------------------------------ *)
\* a path the walk reaches whose suffix is in the allow-list
IsMedia(p) == ~InHiddenDirectory(p) /\ Suffix(p) \in all_extensions

MediaPaths(d) == {p \in Present(d) : IsMedia(p)}

ScanPaths == {scan.files[i].path : i \in 1..Len(scan.files)}

IncrementalScanDone == scan.op = "scan" /\ scan.incremental

\* the incremental result is one item for each candidate media file whose hash
\* is not in the fingerprint set, and nothing else
ExactlyTheUnindexed ==
    /\ ScanPaths = {p \in MediaPaths(scan.dir) :
                       compute_file_hash(p, scan.dir[p]) \notin scan.indexed}
    /\ Len(scan.files) = Cardinality(ScanPaths)
    /\ \A i \in 1..Len(scan.files) :
           scan.files[i].file_hash = compute_file_hash(scan.files[i].path,
                                                       scan.dir[scan.files[i].path])

EmptyAfterCommit == scan.since.state = "clean" => scan.files = <<>>

AddedMediaFile == scan.since.state = "added" /\ scan.since.path \in MediaPaths(scan.dir)

MovedMediaFile ==
    /\ scan.since.state = "moved"
    /\ IsMedia(scan.since.from)
    /\ IsMedia(scan.since.path)

\* the added file's bytes differ from those of every other media file
AddedContentIsNew ==
    \A q \in MediaPaths(scan.dir) \ {scan.since.path} :
        scan.dir[q].content # scan.dir[scan.since.path].content

C17_PersistedIsInMemorySet ==
    scan.op = "committed" => ignore_file = indexed_files

\* the same after the calls whose write of the ignore file did not fail
C17_WhenTheWriteSucceeds ==
    (scan.op = "committed" /\ scan.saved) => ignore_file = indexed_files

(* ------------------------------------------------------------------ *)
(* Claims about VectorDatabase (SpecDB)                                *)
(* ------------------------------------------------------------------ *)
LastIsAdd == last.op = "add"

LastLengthsEqual == Len(last.ids) = Len(last.emb.rows) /\ Len(last.emb.rows) = Len(last.metas)

LastRejected == last.status # "ok"

LastLeftStoreAlone == collection = last.pre_coll /\ count(collection) = count(last.pre_coll)

\* C4: add_embeddings rejects every call whose three lengths are not all
\* equal, whatever the combination, and the rejected call writes nothing to
\* the store and leaves the locked dimension as it was.
C4_RaggedCallRejectedWithoutEffect ==
    (LastIsAdd /\ ~LastLengthsEqual) =>
        /\ LastRejected
        /\ LastLeftStoreAlone
        /\ embedding_dim = last.pre_dim

\* C5: on an instance with no locked dimension the first add_embeddings call
\* (one that gets past the length check) sets the dimension to its vector
\* width; every later call of another width is rejected and leaves the
\* records, the count and the locked dimension unchanged, and the error is
\* the dimension mismatch whenever the three lengths agree.
C5_DimensionLock ==
    LastIsAdd =>
        /\ (last.pre_dim = NoDim /\ last.status # "length_error")
               => embedding_dim = last.emb.w
        /\ (last.pre_dim # NoDim /\ last.emb.w # last.pre_dim)
               => /\ last.status \in {"dimension_mismatch", "length_error"}
                  /\ LastLengthsEqual => last.status = "dimension_mismatch"
                  /\ LastLeftStoreAlone
                  /\ embedding_dim = last.pre_dim

\* a batch of another width is refused with the dimension mismatch on a store
\* that holds records of the width its first batch locked
C5_Witness ==
    /\ LastIsAdd
    /\ last.status = "dimension_mismatch"
    /\ LastLengthsEqual /\ Len(last.ids) > 0
    /\ count(last.pre_coll) > 0
    /\ last.pre_first = last.pre_dim
    /\ last.emb.w # last.pre_dim

\* C6: over the lifetime of a persisted store, across VectorDatabase
\* instances opened on it, every add_embeddings call (of a non-empty batch
\* with lists of one length) that gets through the VectorDatabase checks has
\* the width of the first batch ever written.
C6_PassedWidthIsFirstWidth ==
    (LastIsAdd /\ last.passed /\ LastLengthsEqual /\ Len(last.ids) > 0
        /\ last.pre_first # NoDim) => last.emb.w = last.pre_first

\* C7: a search whose query width differs from the locked dimension fails
\* with a dimension error.
C7_QueryOfOtherWidthFails ==
    (last.op = "search" /\ embedding_dim # NoDim /\ last.w # embedding_dim)
        => last.status # "ok"

\* C8: add_embeddings with an id the store already holds updates that record
\* in place: the count is unchanged, and the record under the id carries the
\* vector and the metadata of the latest call.
C8_ExistingIdUpdatedInPlace ==
    (LastIsAdd /\ last.status = "ok") =>
        \A i \in 1..Len(last.ids) :
            last.ids[i] \in DOMAIN last.pre_coll =>
                /\ count(collection) =
                       count(last.pre_coll) + Cardinality(Range(last.ids) \ DOMAIN last.pre_coll)
                /\ collection[last.ids[i]] =
                       [vec |-> [w |-> last.emb.w, val |-> last.emb.rows[i]],
                        meta |-> last.metas[i]]

====
